---- MODULE Spec2Model ----
(***************************************************************************)
(* Swipe-Brick-Breaker: the engine's turn state machine (Engine.ts) and    *)
(* the physics step it drives (Physics.ts).                                *)
(*                                                                         *)
(* Floating point numbers are kept in fixed point: positions and lengths   *)
(* in tenths of a pixel (PX per pixel), velocities in pixels per second,   *)
(* times in milliseconds, unit vectors in thousandths (UNIT).              *)
(***************************************************************************)
EXTENDS Integers, Sequences, FiniteSets, TLC

\* ---------------------------------------------------------------- constants
BALL_RADIUS == 6
BLOCK_GAP == 4
BALL_SPEED == 800
INITIAL_BALLS == 3
COLS == 7
ITEM_RADIUS == 12

\* fixed-point scales of the float coordinates and of unit vectors
PX == 10
UNIT == 1000

\* top padding of the grid, in pixels (updateBlockLayout)
TopPadding == 100

\* the viewport the canvas' parent reports (logical pixels)
ViewWidth == 382
ViewHeight == 400

\* frame deltas above this many milliseconds are clamped (loop)
MaxFrameMs == 100
\* period of the staggered-launch interval timer, in milliseconds
LaunchPeriodMs == 60
\* minimum upward component of the aim vector, and the launch threshold
MinAimUp == 20
ShootThreshold == 20
\* thresholds of the automatic fast forward, in milliseconds
LongTurnMs == 15000
VeryLongTurnMs == 25000
\* score of a destroyed block
GoldPoints == 500
BlockPoints == 100
\* explosion damage
BlastDamage == 2
\* the safety margin of the game-over check and the launch line offset, px
DangerMargin == 50
LaunchLineOffset == 100
\* where resize puts a launch position that has fallen outside the viewport
LaunchClampX == 20
LaunchClampY == 50

\* ------------------------------------------------------------------- bounds
\* the session is explored up to this level
MaxLevel == 3
\* aim and shoot input is explored at levels up to this one
MaxPlayLevel == 1
\* wall-clock quanta (of LaunchPeriodMs) that may pass between two frames
MaxGap == 1
\* a turn is followed for at most this many milliseconds of flight
MaxTurnMs == 1400
\* the viewport collapses only this early in a turn
MaxCollapseMs == 60
\* on the two-row boards, shots are explored at levels up to this one
MaxBoardLevel == 2
\* in the tall viewport, the first turn is followed for at most this many
\* milliseconds of flight, and shots are explored at levels up to MaxLongLevel
MaxLongTurnMs == 28000
MaxLongLevel == 2
\* rewarded ads that may be pending at once
MaxPendingAds == 2
\* games started after the first one
MaxStarts == 1

\* ------------------------------------------------------------------ helpers
Abs(n) == IF n < 0 THEN -n ELSE n

Min2(a, b) == IF a < b THEN a ELSE b

Max2(a, b) == IF a > b THEN a ELSE b

\* a / b rounded to the nearest integer, b > 0
RDiv(a, b) == IF a >= 0 THEN (2 * a + b) \div (2 * b)
              ELSE -((2 * (-a) + b) \div (2 * b))

\* Math.ceil(a / b) for a >= 0, b > 0
CeilDiv(a, b) == (a + b - 1) \div b

\* F applied to the value of v: v is computed first, F's body afterwards, as
\* two statements in sequence are
Then(v, F(_)) == CHOOSE y \in {F(x) : x \in {v}} : TRUE

\* the largest digit d of 0 .. 35 with (base + d * unit)^2 <= n; the squares
\* stay within 32 bits
SqrtDigit(n, base, unit) ==
    LET Fits(d) == base + d * unit <= 46340
                   /\ (base + d * unit) * (base + d * unit) <= n
    IN CHOOSE d \in 0 .. 35 : Fits(d) /\ (d = 35 \/ ~Fits(d + 1))

\* Math.sqrt, rounded down: three digits to base 36
ISqrt(n) ==
    LET Low(r1) == r1 + SqrtDigit(n, r1, 1)
        Mid(r2) == Low(r2 + 36 * SqrtDigit(n, r2, 36))
    IN Mid(1296 * SqrtDigit(n, 0, 1296))

\* ------------------------------------------------------------------- Vector
Vec(x, y) == [x |-> x, y |-> y]

VecAdd(v1, v2) == Vec(v1.x + v2.x, v1.y + v2.y)

VecSub(v1, v2) == Vec(v1.x - v2.x, v1.y - v2.y)

VecDot(v1, v2) == v1.x * v2.x + v1.y * v2.y

\* Vec2.mag, in tenths of the unit of v
Mag10(v) == ISqrt(100 * (v.x * v.x + v.y * v.y))

\* Vec2.normalize: the unit vector in thousandths; (0,0) for the zero vector
Normalize(v) ==
    LET Scaled(m) == IF m = 0 THEN Vec(0, 0)
                     ELSE Vec(RDiv(v.x * 10 * UNIT, m), RDiv(v.y * 10 * UNIT, m))
    IN Scaled(Mag10(v))

\* Vec2.reflect(v, normal) = v - 2 (v . n) n, n in thousandths
Reflect(v, n) ==
    LET twoDot == RDiv(2 * VecDot(v, n), UNIT)
    IN Vec(v.x - RDiv(twoDot * n.x, UNIT), v.y - RDiv(twoDot * n.y, UNIT))

\* ----------------------------------------------------------------- entities
\* BallEntity: position in tenths of a pixel, velocity in px/s
Ball(id, pos) ==
    [id |-> id, position |-> pos, velocity |-> Vec(0, 0),
     isActive |-> TRUE, isReturning |-> FALSE]

\* BlockEntity; maxHp starts as hp.  x, y, width and height are a cache of
\* the layout below, recomputed by every operation that changes col, row or
\* the viewport, and are derived here where they are read.
Block(id, col, row, hp, type, gimmick) ==
    [id |-> id, col |-> col, row |-> row, hp |-> hp, maxHp |-> hp,
     type |-> type, gimmick |-> gimmick]

\* ItemEntity
Item(id, col, row) == [id |-> id, col |-> col, row |-> row, collected |-> FALSE]

\* updateBlockLayout: blockWidth = (width - (COLS + 1) * gap) / COLS
BlockWidth(w) == (w * PX - (COLS + 1) * BLOCK_GAP * PX) \div COLS

\* BlockEntity.updatePosition
BlockX(b, w) == BLOCK_GAP * PX + b.col * (BlockWidth(w) + BLOCK_GAP * PX)

BlockY(b, w) == TopPadding * PX + b.row * (BlockWidth(w) + BLOCK_GAP * PX)

\* ItemEntity.updatePosition: the centre of the cell
ItemPos(i, w) ==
    Vec(BLOCK_GAP * PX + i.col * (BlockWidth(w) + BLOCK_GAP * PX) + BlockWidth(w) \div 2,
        TopPadding * PX + i.row * (BlockWidth(w) + BLOCK_GAP * PX) + BlockWidth(w) \div 2)

\* ---------------------------------------------------------------- collision
NoCollision == [hit |-> FALSE, normal |-> Vec(0, 0), depth10 |-> 0]

\* checkAABBCollision: clamped-point test of the ball against the block's box.
\* depth10 is the penetration depth in hundredths of a pixel.
checkAABBCollision(ballPos, block, w) ==
    LET bx == BlockX(block, w)
        by == BlockY(block, w)
        bw == BlockWidth(w)
        closestX == Max2(bx, Min2(ballPos.x, bx + bw))
        closestY == Max2(by, Min2(ballPos.y, by + bw))
        radiusSq == (BALL_RADIUS * PX) * (BALL_RADIUS * PX)
        centre == Vec(bx + bw \div 2, by + bw \div 2)
        Inside(fromCentre) == IF fromCentre = Vec(0, 0) THEN Vec(0, -UNIT)
                              ELSE fromCentre
        Test(d, distanceSquared) ==
            IF distanceSquared < radiusSq
            THEN [hit |-> TRUE,
                  normal |-> IF distanceSquared = 0
                             THEN Inside(Normalize(VecSub(ballPos, centre)))
                             ELSE Normalize(d),
                  depth10 |-> BALL_RADIUS * PX * 10 - ISqrt(100 * distanceSquared)]
            ELSE NoCollision
        From(d) == Test(d, d.x * d.x + d.y * d.y)
    IN From(Vec(ballPos.x - closestX, ballPos.y - closestY))

\* checkCollision, CIRCLE branch: circle inscribed with a 2 px margin
checkCircleCollision(ballPos, block, w) ==
    LET bw == BlockWidth(w)
        centre == Vec(BlockX(block, w) + bw \div 2, BlockY(block, w) + bw \div 2)
        blockRadius == bw \div 2 - 2 * PX
        combinedRadius == BALL_RADIUS * PX + blockRadius
        Overlap(d, dist10) ==
            [hit |-> TRUE,
             normal |-> IF dist10 > 0 THEN Normalize(d) ELSE Vec(0, -UNIT),
             depth10 |-> combinedRadius * 10 - dist10]
        Test(d) ==
            IF Abs(d.x) < combinedRadius /\ Abs(d.y) < combinedRadius
               /\ d.x * d.x + d.y * d.y < combinedRadius * combinedRadius
            THEN Overlap(d, Mag10(d))
            ELSE NoCollision
    IN Test(VecSub(ballPos, centre))

\* checkCollision for the shapes the model spawns (SQUARE and CIRCLE)
checkCollision(ballPos, block, w) ==
    IF block.type = "CIRCLE" THEN checkCircleCollision(ballPos, block, w)
    ELSE checkAABBCollision(ballPos, block, w)

\* a block loop that resolves the last overlapping live block
RECURSIVE FirstHit_last(_, _, _, _)
FirstHit_last(nextPos, blocks, w, i) ==
    IF i > Len(blocks) THEN 0
    ELSE LET Later(k) ==
                 IF k # 0 THEN k
                 ELSE IF blocks[i].hp > 0 /\ checkCollision(nextPos, blocks[i], w).hit
                 THEN i
                 ELSE 0
         IN Later(FirstHit_last(nextPos, blocks, w, i + 1))

\* ------------------------------------------------------------- physics step
\* index of the first live block the ball at nextPos overlaps, 0 when none
RECURSIVE FirstHit(_, _, _, _)
FirstHit(nextPos, blocks, w, i) ==
    IF i > Len(blocks) THEN 0
    ELSE IF blocks[i].hp > 0 /\ checkCollision(nextPos, blocks[i], w).hit THEN i
    ELSE FirstHit(nextPos, blocks, w, i + 1)

\* the item sensor: an uncollected item within the combined radius is collected
SenseItems(nextPos, items, w) ==
    [k \in DOMAIN items |->
        LET it == items[k]
            combinedRadius == (BALL_RADIUS + ITEM_RADIUS) * PX
            Sense(d) ==
                IF ~it.collected
                   /\ Abs(d.x) < combinedRadius /\ Abs(d.y) < combinedRadius
                   /\ d.x * d.x + d.y * d.y < combinedRadius * combinedRadius
                THEN [it EXCEPT !.collected = TRUE]
                ELSE it
        IN Sense(VecSub(nextPos, ItemPos(it, w)))]

\* stepBall: one sub-step of one ball.  dt / steps is the sub-step's duration;
\* w, h are the physics system's dimensions in pixels.
stepBall(dt, steps, ball, blocks, items, w, h) ==
    LET \* the block loop: block i is the first one hit, 0 when none is
        Resolve(nextPos, vel, items2, i) ==
            LET damaged == [blocks EXCEPT ![i].hp = @ - 1]
                Bounce(collision) ==
                    [ball EXCEPT
                        !.position =
                            Vec(nextPos.x + RDiv(collision.normal.x * collision.depth10, 10 * UNIT),
                                nextPos.y + RDiv(collision.normal.y * collision.depth10, 10 * UNIT)),
                        !.velocity = Reflect(vel, collision.normal)]
            IN IF i = 0
               THEN [ball |-> [ball EXCEPT !.position = nextPos, !.velocity = vel],
                     blocks |-> blocks, items |-> items2]
               ELSE IF blocks[i].gimmick = "POISON"
               THEN \* the ball is dead; its position is not written
                    [ball |-> [ball EXCEPT !.velocity = vel,
                                           !.isActive = FALSE,
                                           !.isReturning = TRUE],
                     blocks |-> damaged, items |-> items2]
               ELSE [ball |-> Bounce(checkCollision(nextPos, blocks[i], w)),
                     blocks |-> damaged, items |-> items2]
        Entities(nextPos, vel) ==
            Resolve(nextPos, vel, SenseItems(nextPos, items, w),
                    FirstHit(nextPos, blocks, w, 1))
        Walls(moved) ==
            LET \* left wall
                hitL == moved.x - BALL_RADIUS * PX < 0
                x1 == IF hitL THEN BALL_RADIUS * PX ELSE moved.x
                vx1 == IF hitL THEN -ball.velocity.x ELSE ball.velocity.x
                \* right wall
                hitR == x1 + BALL_RADIUS * PX > w * PX
                x2 == IF hitR THEN w * PX - BALL_RADIUS * PX ELSE x1
                vx2 == IF hitR THEN -vx1 ELSE vx1
                \* top wall
                hitT == moved.y - BALL_RADIUS * PX < 0
                y2 == IF hitT THEN BALL_RADIUS * PX ELSE moved.y
                vy2 == IF hitT THEN -ball.velocity.y ELSE ball.velocity.y
            IN Entities(Vec(x2, y2), Vec(vx2, vy2))
    IN Walls(Vec(ball.position.x + RDiv(ball.velocity.x * dt, 100 * steps),
                 ball.position.y + RDiv(ball.velocity.y * dt, 100 * steps)))

\* the balls PhysicsSystem.update steps: active and not returning when the
\* update starts, in container order
RECURSIVE ActiveBalls(_, _)
ActiveBalls(balls, i) ==
    IF i > Len(balls) THEN <<>>
    ELSE IF balls[i].isActive /\ ~balls[i].isReturning
         THEN <<i>> \o ActiveBalls(balls, i + 1)
         ELSE ActiveBalls(balls, i + 1)

\* a sub-step count whose step size is the whole radius
SubSteps_radius(dt) == CeilDiv(BALL_SPEED * dt, 1000 * BALL_RADIUS)

\* Math.ceil((maxSpeed * dt) / (BALL_RADIUS * 0.5)), dt in milliseconds
SubSteps(dt) == CeilDiv(2 * BALL_SPEED * dt, 1000 * BALL_RADIUS)

\* the nested loops of PhysicsSystem.update, iterations lo .. hi in order:
\* iteration j steps the ((j - 1) % n + 1)-th of the n active balls in
\* sub-step (j - 1) \div n.  The range is folded left to right by halves.
RECURSIVE PhysicsLoop(_, _, _, _, _, _, _, _)
PhysicsLoop(dt, steps, active, st, lo, hi, w, h) ==
    IF lo > hi THEN st
    ELSE IF lo = hi
    THEN LET Put(b, r) == [balls |-> [st.balls EXCEPT ![b] = r.ball],
                            blocks |-> r.blocks, items |-> r.items]
             Step(b) == Put(b, stepBall(dt, steps, st.balls[b], st.blocks,
                                        st.items, w, h))
         IN Step(active[((lo - 1) % Len(active)) + 1])
    ELSE LET mid == (lo + hi) \div 2
             Rest(left) == PhysicsLoop(dt, steps, active, left, mid + 1, hi, w, h)
         IN Then(PhysicsLoop(dt, steps, active, st, lo, mid, w, h), Rest)

\* PhysicsSystem.update
PhysicsUpdate(dt, balls, blocks, items, w, h) ==
    LET active == ActiveBalls(balls, 1)
    IN PhysicsLoop(dt, SubSteps(dt), active,
                   [balls |-> balls, blocks |-> blocks, items |-> items],
                   1, SubSteps(dt) * Len(active), w, h)

\* ------------------------------------------------------------------- random
\* What Math.random() decides for one column of a new row: nothing, an item,
\* or a block with an hp multiplier (in thousandths), a shape and a gimmick.
EmptyCell == [kind |-> "empty", mult |-> 0, type |-> "SQUARE", gimmick |-> "NONE"]

ItemCell == [kind |-> "item", mult |-> 0, type |-> "SQUARE", gimmick |-> "NONE"]

BlockCell(mult, type, gimmick) ==
    [kind |-> "block", mult |-> mult, type |-> type, gimmick |-> gimmick]

\* a draw that leaves every column empty except columns 3 and 4, the two
\* columns above the initial launch position
RowOf(c3, c4) ==
    [c \in 0 .. COLS - 1 |-> IF c = 3 THEN c3 ELSE IF c = 4 THEN c4 ELSE EmptyCell]

\* the explored draws: two weak blocks; a boss-tier POISON block; an item
\* beside a boss-tier block; a weak POISON block beside an item
Rows ==
    {RowOf(BlockCell(300, "SQUARE", "NONE"), BlockCell(300, "SQUARE", "NONE")),
     RowOf(BlockCell(4000, "SQUARE", "POISON"), EmptyCell),
     RowOf(ItemCell, BlockCell(4000, "SQUARE", "NONE")),
     RowOf(BlockCell(300, "SQUARE", "POISON"), ItemCell)}

\* the explored draws of the rows a turn end spawns: two weak blocks; an item
\* beside a boss-tier block
TurnRows ==
    {RowOf(BlockCell(300, "SQUARE", "NONE"), BlockCell(300, "SQUARE", "NONE")),
     RowOf(ItemCell, BlockCell(4000, "SQUARE", "NONE"))}

\* ------------------------------------------------------------- engine state
VARIABLES
    engine,     \* the Engine instance's fields
    ui,         \* what the engine's callbacks have told its owners
    sinceLast,  \* wall-clock milliseconds since Engine.lastTime was set
    timerDue,   \* the launch interval's callback is due
    lastOp      \* the handler that ran last

vars == <<engine, ui, sinceLast, timerDue, lastOp>>

NoVec == [x |-> -1, y |-> -1]

NoSnapshot == [level |-> 0]

\* Engine.resetBalls
resetBalls(e) ==
    [e EXCEPT !.balls =
        [i \in 1 .. e.totalBalls |->
            [Ball(i - 1, e.launchPos) EXCEPT !.isActive = FALSE,
                                              !.isReturning = FALSE,
                                              !.velocity = Vec(0, 0)]]]

\* Engine.addBlockRow, columns col .. COLS - 1; ids stand for
\* `${Date.now()}-${col}` and `${Date.now()}-i-${col}`
RECURSIVE addBlockRowFrom(_, _, _)
addBlockRowFrom(e, row, col) ==
    IF col >= COLS THEN e
    ELSE LET cell == row[col]
             hp == Max2(1, (e.level * cell.mult) \div 1000)
         IN addBlockRowFrom(
              IF cell.kind = "item"
              THEN [e EXCEPT !.items = Append(@, Item(<<"i", e.level, col>>, col, 1))]
              ELSE IF cell.kind = "block"
              THEN [e EXCEPT !.blocks =
                      Append(@, Block(<<"b", e.level, col>>, col, 1, hp,
                                      cell.type, cell.gimmick))]
              ELSE e,
              row, col + 1)

addBlockRow(e, row) == addBlockRowFrom(e, row, 0)

\* a turn end that leaves every row where it stands
moveBlocksDown_none(e) == e

\* a shift that moves the blocks and leaves the items in their rows
moveBlocksDown_blocksOnly(e) ==
    [e EXCEPT !.blocks = [k \in DOMAIN @ |-> [@[k] EXCEPT !.row = @ + 1]]]

\* Engine.moveBlocksDown
moveBlocksDown(e) ==
    [e EXCEPT !.blocks = [k \in DOMAIN @ |-> [@[k] EXCEPT !.row = @ + 1]],
              !.items = [k \in DOMAIN @ |-> [@[k] EXCEPT !.row = @ + 1]]]

\* an emitMetrics that never reaches the callback
emitMetrics_silent(s) == s

\* Engine.emitMetrics: onMetricUpdate(score, level, totalBalls)
emitMetrics(s) ==
    [s EXCEPT !.ui.lastMetrics =
        <<s.engine.score, s.engine.level, s.engine.totalBalls>>]

\* Engine.getSnapshot
getSnapshot(e) ==
    [level |-> e.level, score |-> e.score, totalBalls |-> e.totalBalls,
     launchPos |-> e.launchPos,
     blocks |-> [k \in DOMAIN e.blocks |->
                   [id |-> e.blocks[k].id, col |-> e.blocks[k].col,
                    row |-> e.blocks[k].row, hp |-> e.blocks[k].hp,
                    maxHp |-> e.blocks[k].maxHp, type |-> e.blocks[k].type,
                    gimmick |-> e.blocks[k].gimmick]],
     items |-> [k \in DOMAIN e.items |->
                   [id |-> e.items[k].id, col |-> e.items[k].col,
                    row |-> e.items[k].row]]]

\* the resetGame part of the constructor, after resize() has taken the
\* viewport; width and height are pixels, positions tenths of a pixel
resetGame(w, h, row) ==
    LET e0 == [phase |-> "AIMING", width |-> w, height |-> h,
               balls |-> <<>>, blocks |-> <<>>, items |-> <<>>,
               level |-> 1, score |-> 0, totalBalls |-> INITIAL_BALLS,
               ballsReturned |-> 0,
               launchPos |-> Vec((w * PX) \div 2, (h - LaunchLineOffset) * PX),
               launchVector |-> NoVec,
               launchInterval |-> FALSE, firedCount |-> 0,
               turnTimer |-> 0, timeScale |-> 1, isPaused |-> FALSE,
               aimVector |-> Vec(0, 0),
               launchPosUpdated |-> FALSE, nextLaunchPos |-> NoVec]
    IN resetBalls(addBlockRow(e0, row))

\* Engine.resize with the parent element w by h pixels
resize(e, w, h) ==
    LET sized == [e EXCEPT !.width = w, !.height = h]
        placed == IF Len(e.balls) = 0 /\ w > 0
                  THEN resetBalls([sized EXCEPT
                          !.launchPos = Vec((w * PX) \div 2, (h - LaunchLineOffset) * PX)])
                  ELSE sized
    IN [placed EXCEPT
          !.launchPos.x = IF @ > w * PX THEN (w - LaunchClampX) * PX ELSE @,
          !.launchPos.y = IF @ > h * PX THEN (h - LaunchClampY) * PX ELSE @]

\* the collaborators before any callback: GameCanvas.showRecall, what
\* onMetricUpdate last delivered, GameScreen.snapshot and continueUsed, the
\* snapshot last handed to restoreFromSnapshot, the number of onGameOver
\* calls and of onLongTurn(true) calls made by the handler that ran last,
\* the aim line on the canvas, the snapshots held by the handleContinue calls
\* that wait for their rewarded ad, the number of restoreFromSnapshot calls
\* since handleStart, and the number of handleStart calls
InitUi ==
    [showRecall |-> FALSE, lastMetrics |-> <<>>, snapshot |-> NoSnapshot,
     continueUsed |-> FALSE, restoredFrom |-> NoSnapshot, gameOverCalls |-> 0,
     aimLine |-> <<>>, longTurnCalls |-> 0,
     pendingAds |-> <<>>, restores |-> 0, gameId |-> 0]

\* ---------------------------------------------------------------- turn end
\* the blocks the game-over check of endTurn finds at or below the margin
DangerBlocks(e) ==
    {k \in DOMAIN e.blocks :
        BlockY(e.blocks[k], e.width) + BlockWidth(e.width)
            >= e.launchPos.y - DangerMargin * PX}

\* GameScreen.handleGameOver up to its first await: the snapshot is taken
\* inside the onGameOver callback
handleGameOver(s) ==
    [s EXCEPT !.ui.gameOverCalls = @ + 1,
              !.ui.snapshot = getSnapshot(s.engine)]

\* the forEach of the game-over check: one onGameOver call per block found
RECURSIVE checkGameOver(_, _)
checkGameOver(s, k) ==
    IF k > Len(s.engine.blocks) THEN s
    ELSE IF k \in DangerBlocks(s.engine)
         THEN checkGameOver(handleGameOver([s EXCEPT !.engine.phase = "GAME_OVER"]), k + 1)
         ELSE checkGameOver(s, k + 1)

\* Engine.endTurn; row is what Math.random() draws in addBlockRow
endTurn(s, row) ==
    LET e == s.engine
        e1 == [e EXCEPT !.launchInterval = FALSE,
                        !.phase = "AIMING",
                        !.launchPos = IF e.nextLaunchPos # NoVec
                                      THEN e.nextLaunchPos ELSE @,
                        !.launchPosUpdated = FALSE,
                        !.nextLaunchPos = NoVec,
                        !.level = @ + 1]
        e2 == resetBalls(addBlockRow(moveBlocksDown(e1), row))
    IN emitMetrics(checkGameOver([s EXCEPT !.engine = e2], 1))

\* a recall that only flips the phase and the level, leaving the interval
\* and the balls as they are
recallBalls_phaseOnly(s, row) ==
    [s EXCEPT !.engine.phase = "AIMING",
              !.engine.level = @ + 1,
              !.ui.showRecall = FALSE]

\* Engine.recallBalls
recallBalls(s, row) == [endTurn(s, row) EXCEPT !.ui.showRecall = FALSE]

\* ------------------------------------------------------------------- update
\* indices of the blocks with hp <= 0, in container order
RECURSIVE DestroyedFrom(_, _)
DestroyedFrom(blocks, k) ==
    IF k > Len(blocks) THEN <<>>
    ELSE IF blocks[k].hp <= 0 THEN <<k>> \o DestroyedFrom(blocks, k + 1)
         ELSE DestroyedFrom(blocks, k + 1)

\* an EXPLOSIVE handling whose blast reaches two cells instead of one
RECURSIVE Explode_wide(_, _, _)
Explode_wide(blocks, destroyed, n) ==
    IF n > Len(destroyed) THEN blocks
    ELSE LET block == blocks[destroyed[n]]
         IN IF block.gimmick = "EXPLOSIVE"
            THEN Explode_wide(
                   [k \in DOMAIN blocks |->
                      LET other == blocks[k]
                          colDiff == Abs(other.col - block.col)
                          rowDiff == Abs(other.row - block.row)
                      IN IF other.hp > 0 /\ colDiff <= 2 /\ rowDiff <= 2
                            /\ colDiff + rowDiff > 0
                         THEN [other EXCEPT !.hp = @ - BlastDamage]
                         ELSE other],
                   destroyed, n + 1)
            ELSE Explode_wide(blocks, destroyed, n + 1)

\* the EXPLOSIVE handling: for each destroyed block in turn, every other
\* block that is live at that moment and within one cell loses BlastDamage
RECURSIVE Explode(_, _, _)
Explode(blocks, destroyed, n) ==
    IF n > Len(destroyed) THEN blocks
    ELSE LET block == blocks[destroyed[n]]
         IN IF block.gimmick = "EXPLOSIVE"
            THEN Explode(
                   [k \in DOMAIN blocks |->
                      LET other == blocks[k]
                          colDiff == Abs(other.col - block.col)
                          rowDiff == Abs(other.row - block.row)
                      IN IF other.hp > 0 /\ colDiff <= 1 /\ rowDiff <= 1
                            /\ colDiff + rowDiff > 0
                         THEN [other EXCEPT !.hp = @ - BlastDamage]
                         ELSE other],
                   destroyed, n + 1)
            ELSE Explode(blocks, destroyed, n + 1)

\* a scoreGain that awards BlockPoints for every destroyed block
RECURSIVE ScoreGain_flat(_, _, _)
ScoreGain_flat(blocks, destroyed, n) ==
    IF n > Len(destroyed) THEN 0
    ELSE BlockPoints + ScoreGain_flat(blocks, destroyed, n + 1)

\* scoreGain over the destroyed blocks
RECURSIVE ScoreGain(_, _, _)
ScoreGain(blocks, destroyed, n) ==
    IF n > Len(destroyed) THEN 0
    ELSE (IF blocks[destroyed[n]].gimmick = "GOLD" THEN GoldPoints ELSE BlockPoints)
         + ScoreGain(blocks, destroyed, n + 1)

\* Array.filter
RECURSIVE Filter(_, _, _)
Filter(seq, Keep(_), k) ==
    IF k > Len(seq) THEN <<>>
    ELSE IF Keep(seq[k]) THEN <<seq[k]>> \o Filter(seq, Keep, k + 1)
         ELSE Filter(seq, Keep, k + 1)

\* a purge that keeps every block
IsLive_any(b) == TRUE

IsLive(b) == b.hp > 0

\* a filter that keeps collected items on the board
NotCollected_all(i) == TRUE

NotCollected(i) == ~i.collected

IsCollected(i) == i.collected

\* a return check that does not ask whether a ball has been launched
RECURSIVE checkReturning_idle(_, _)
checkReturning_idle(e, k) ==
    IF k > Len(e.balls) THEN e
    ELSE LET ball == e.balls[k]
         IN IF ball.isReturning THEN checkReturning_idle(e, k + 1)
            ELSE IF ball.isActive
            THEN IF ball.position.y >= (e.height - BALL_RADIUS) * PX
                 THEN checkReturning_idle(
                        [e EXCEPT !.balls[k].isActive = FALSE,
                                  !.balls[k].isReturning = TRUE,
                                  !.ballsReturned = @ + 1,
                                  !.nextLaunchPos =
                                      IF e.launchPosUpdated THEN @
                                      ELSE Vec(ball.position.x,
                                               (e.height - LaunchLineOffset) * PX),
                                  !.launchPosUpdated = TRUE],
                        k + 1)
                 ELSE checkReturning_idle(e, k + 1)
            ELSE checkReturning_idle(
                   [e EXCEPT !.balls[k].isReturning = TRUE,
                             !.ballsReturned = @ + 1],
                   k + 1)

\* a return check in which every ball crossing the bottom boundary records
\* its x, so that the last one wins
RECURSIVE checkReturning_last(_, _)
checkReturning_last(e, k) ==
    IF k > Len(e.balls) THEN e
    ELSE LET ball == e.balls[k]
             hasBeenLaunched == ball.velocity.x # 0 \/ ball.velocity.y # 0
         IN IF ball.isReturning \/ ~hasBeenLaunched THEN checkReturning_last(e, k + 1)
            ELSE IF ball.isActive
            THEN IF ball.position.y >= (e.height - BALL_RADIUS) * PX
                 THEN checkReturning_last(
                        [e EXCEPT !.balls[k].isActive = FALSE,
                                  !.balls[k].isReturning = TRUE,
                                  !.ballsReturned = @ + 1,
                                  !.nextLaunchPos =
                                      Vec(ball.position.x,
                                          (e.height - LaunchLineOffset) * PX),
                                  !.launchPosUpdated = TRUE],
                        k + 1)
                 ELSE checkReturning_last(e, k + 1)
            ELSE checkReturning_last(
                   [e EXCEPT !.balls[k].isReturning = TRUE,
                             !.ballsReturned = @ + 1],
                   k + 1)

\* "Check for returning balls": the forEach over the balls, from ball k on
RECURSIVE checkReturning(_, _)
checkReturning(e, k) ==
    IF k > Len(e.balls) THEN e
    ELSE LET ball == e.balls[k]
             hasBeenLaunched == ball.velocity.x # 0 \/ ball.velocity.y # 0
         IN IF ball.isReturning \/ ~hasBeenLaunched THEN checkReturning(e, k + 1)
            ELSE IF ball.isActive
            THEN IF ball.position.y >= (e.height - BALL_RADIUS) * PX
                 THEN checkReturning(
                        [e EXCEPT !.balls[k].isActive = FALSE,
                                  !.balls[k].isReturning = TRUE,
                                  !.ballsReturned = @ + 1,
                                  !.nextLaunchPos =
                                      IF e.launchPosUpdated THEN @
                                      ELSE Vec(ball.position.x,
                                               (e.height - LaunchLineOffset) * PX),
                                  !.launchPosUpdated = TRUE],
                        k + 1)
                 ELSE checkReturning(e, k + 1)
            ELSE checkReturning(
                   [e EXCEPT !.balls[k].isReturning = TRUE,
                             !.ballsReturned = @ + 1],
                   k + 1)

\* the part of Engine.update before a possible endTurn, dt in milliseconds
\* (the visual effects, which nothing else reads, are left out)
updateFlight(s, dt) ==
    LET e == s.engine
        turnTimer == e.turnTimer + dt
        goLong == turnTimer > LongTurnMs /\ e.timeScale < 2
        scale2 == IF goLong THEN 2 ELSE e.timeScale
        scale3 == IF turnTimer > VeryLongTurnMs /\ scale2 < 3 THEN 3 ELSE scale2
        Returns(afterItems) == [afterItems EXCEPT !.engine = checkReturning(@, 1)]
        Emit(changed, s1) == IF changed THEN emitMetrics(s1) ELSE s1
        Collect(ph, afterScore, collectedCount) ==
            Returns(Emit(collectedCount > 0,
                         [afterScore EXCEPT
                             !.engine.totalBalls = @ + collectedCount,
                             !.engine.items = Filter(ph.items, NotCollected, 1)]))
        Score(ph, destroyed, scoreGain) ==
            Collect(ph,
                    Emit(scoreGain > 0,
                         [s EXCEPT !.engine.turnTimer = turnTimer,
                                   !.engine.timeScale = scale3,
                                   !.ui.showRecall = IF goLong THEN TRUE ELSE @,
                                   !.ui.longTurnCalls = IF goLong THEN @ + 1 ELSE @,
                                   !.engine.balls = ph.balls,
                                   !.engine.blocks =
                                       Filter(Explode(ph.blocks, destroyed, 1), IsLive, 1),
                                   !.engine.items = ph.items,
                                   !.engine.score = @ + scoreGain]),
                    Len(Filter(ph.items, IsCollected, 1)))
        Destroyed(ph, destroyed) == Score(ph, destroyed, ScoreGain(ph.blocks, destroyed, 1))
        Settle(ph) == Destroyed(ph, DestroyedFrom(ph.blocks, 1))
    IN Settle(PhysicsUpdate(dt * scale3, e.balls, e.blocks, e.items, e.width, e.height))

\* whether the update that produced s goes on to end the turn
TurnOver(s) == s.engine.ballsReturned >= Len(s.engine.balls)

\* Engine.update
update(s, dt, row) ==
    IF s.engine.phase \in {"SHOOTING", "RETURNING"}
    THEN LET Finish(s1) == IF TurnOver(s1) THEN endTurn(s1, row) ELSE s1
         IN Finish(updateFlight(s, dt))
    ELSE s

\* --------------------------------------------------------------------- input
\* pointer positions of a drag, as offsets from the launch position in px
PointerOffsets == {<<0, -50>>, <<0, -5>>, <<5, 0>>}

\* tan(0.15), cos(0.15) and sin(0.15) in thousandths: the launch cone
TanCone == 151
CosCone == 989
SinCone == 149

\* the vector both input handlers derive from the pointer: mirrored above
\* the launch line and forced at least MinAimUp upwards (tenths of a pixel)
AimRaw(e, current) ==
    LET targetY == IF current.y > e.launchPos.y
                   THEN e.launchPos.y - (current.y - e.launchPos.y)
                   ELSE current.y
        vy == targetY - e.launchPos.y
    IN Vec(current.x - e.launchPos.x,
           IF vy > -MinAimUp * PX THEN -MinAimUp * PX ELSE vy)

\* angle > maxAngle && angle < PI / 2, for a vector pointing upwards
TooFlatRight(v) == v.x > 0 /\ (-v.y) * UNIT < v.x * TanCone

\* angle < minAngle || angle > PI / 2, for a vector pointing upwards
TooFlatLeft(v) == v.x < 0 /\ (-v.y) * UNIT < (-v.x) * TanCone

\* a startShooting that lets the timer and the scale of the last turn run on
startShooting_keepsTimer(s, vector) ==
    LET norm == Normalize(vector)
    IN [s EXCEPT !.engine.launchVector =
                     Vec(RDiv(norm.x * BALL_SPEED, UNIT), RDiv(norm.y * BALL_SPEED, UNIT)),
                 !.engine.phase = "SHOOTING",
                 !.engine.ballsReturned = 0,
                 !.ui.showRecall = FALSE,
                 !.engine.launchInterval = TRUE,
                 !.engine.firedCount = 0]

\* Engine.startShooting; vector in px/s
startShooting(s, vector) ==
    LET norm == Normalize(vector)
    IN [s EXCEPT !.engine.launchVector =
                     Vec(RDiv(norm.x * BALL_SPEED, UNIT), RDiv(norm.y * BALL_SPEED, UNIT)),
                 !.engine.phase = "SHOOTING",
                 !.engine.ballsReturned = 0,
                 !.engine.turnTimer = 0,
                 !.engine.timeScale = 1,
                 !.ui.showRecall = FALSE,
                 !.engine.launchInterval = TRUE,
                 !.engine.firedCount = 0]

\* an onShoot that does not look at the phase
onShoot_anyPhase(s, current) ==
    LET vector == AimRaw(s.engine, current)
        dir == IF TooFlatRight(vector) THEN Vec(CosCone, -SinCone)
               ELSE IF TooFlatLeft(vector) THEN Vec(-CosCone, -SinCone)
               ELSE Normalize(vector)
        finalVector == Vec(RDiv(dir.x * BALL_SPEED, UNIT),
                           RDiv(dir.y * BALL_SPEED, UNIT))
    IN IF VecDot(vector, vector) > (ShootThreshold * PX) * (ShootThreshold * PX)
       THEN [startShooting(s, finalVector) EXCEPT !.engine.aimVector = Vec(0, 0)]
       ELSE s

\* Engine.input.onShoot
onShoot(s, current) ==
    IF s.engine.phase = "AIMING"
    THEN LET vector == AimRaw(s.engine, current)
             dir == IF TooFlatRight(vector) THEN Vec(CosCone, -SinCone)
                    ELSE IF TooFlatLeft(vector) THEN Vec(-CosCone, -SinCone)
                    ELSE Normalize(vector)
             finalVector == Vec(RDiv(dir.x * BALL_SPEED, UNIT),
                                RDiv(dir.y * BALL_SPEED, UNIT))
         IN IF VecDot(vector, vector) > (ShootThreshold * PX) * (ShootThreshold * PX)
            THEN [startShooting(s, finalVector) EXCEPT !.engine.aimVector = Vec(0, 0)]
            ELSE s
    ELSE s

\* Engine.input.onAim; a clamped aim vector is the unit vector of the cone
onAim(s, current) ==
    IF s.engine.phase = "AIMING"
    THEN LET vector == AimRaw(s.engine, current)
         IN [s EXCEPT !.engine.aimVector =
                IF TooFlatRight(vector) THEN Vec(CosCone, -SinCone)
                ELSE IF TooFlatLeft(vector) THEN Vec(-CosCone, -SinCone)
                ELSE vector]
    ELSE s

\* ------------------------------------------------------------- aim preview
\* Infinity, as a distance in tenths of a pixel
Far == 100000000

\* a / b rounded to the nearest integer, b # 0
SDiv(a, b) == IF b > 0 THEN RDiv(a, b) ELSE RDiv(-a, -b)

\* predictTrajectory, 1: the nearest wall along dir (in thousandths) from pos
RayWalls(pos, dir, w) ==
    LET side == IF dir.x > 0
                THEN [d |-> SDiv(((w - BALL_RADIUS) * PX - pos.x) * UNIT, dir.x),
                      normal |-> Vec(-UNIT, 0), hitType |-> "WALL"]
                ELSE IF dir.x < 0
                THEN [d |-> SDiv((BALL_RADIUS * PX - pos.x) * UNIT, dir.x),
                      normal |-> Vec(UNIT, 0), hitType |-> "WALL"]
                ELSE [d |-> Far, normal |-> Vec(0, 0), hitType |-> "NONE"]
        Top(near, d) == IF dir.y < 0 /\ d < near.d
                        THEN [d |-> d, normal |-> Vec(0, UNIT), hitType |-> "WALL"]
                        ELSE near
    IN Top(side, IF dir.y < 0
                 THEN SDiv((BALL_RADIUS * PX - pos.y) * UNIT, dir.y)
                 ELSE Far)

\* the slab test of a ray against a block grown by the ball radius: the
\* entry distance tmin and the exit distance tmax
RaySlab(pos, dir, block, w) ==
    LET lowX == BlockX(block, w) - BALL_RADIUS * PX
        lowY == BlockY(block, w) - BALL_RADIUS * PX
        size == BlockWidth(w) + 2 * BALL_RADIUS * PX
        Slab(t, lo, hi, from, by) ==
            IF by = 0 THEN t
            ELSE LET Cut(t1, t2) == [tmin |-> Max2(t.tmin, Min2(t1, t2)),
                                     tmax |-> Min2(t.tmax, Max2(t1, t2))]
                 IN Cut(SDiv((lo - from) * UNIT, by), SDiv((hi - from) * UNIT, by))
        Across(t) == Slab(t, lowY, lowY + size, pos.y, dir.y)
    IN Across(Slab([tmin |-> -Far, tmax |-> Far], lowX, lowX + size, pos.x, dir.x))

\* predictTrajectory, 2: the blocks from the k-th on, against the nearest
\* hit found so far
RECURSIVE RayBlocks(_, _, _, _, _, _)
RayBlocks(pos, dir, blocks, w, k, near) ==
    IF k > Len(blocks) THEN near
    ELSE IF blocks[k].hp <= 0 THEN RayBlocks(pos, dir, blocks, w, k + 1, near)
    ELSE LET Hit(t) == IF t.tmax >= t.tmin /\ t.tmax >= 0 /\ t.tmin < near.d
                          /\ t.tmin > 1
                       THEN [d |-> t.tmin, normal |-> Vec(0, 0), hitType |-> "BLOCK"]
                       ELSE near
         IN RayBlocks(pos, dir, blocks, w, k + 1, Hit(RaySlab(pos, dir, blocks[k], w)))

\* the loop of predictTrajectory from bounce b on
RECURSIVE predictFrom(_, _, _, _, _, _, _)
predictFrom(currentPos, currentDir, maxBounces, blocks, w, b, points) ==
    IF b >= maxBounces THEN points
    ELSE LET Along(d) == VecAdd(currentPos, Vec(RDiv(currentDir.x * d, UNIT),
                                                RDiv(currentDir.y * d, UNIT)))
             Go(near) ==
                 IF near.d >= Far \/ near.d > 2000 * PX
                 THEN Append(points, Along(1000 * PX))
                 ELSE IF near.hitType = "WALL"
                 THEN predictFrom(
                        VecAdd(Along(near.d),
                               Vec(near.normal.x \div UNIT, near.normal.y \div UNIT)),
                        Reflect(currentDir, near.normal),
                        maxBounces, blocks, w, b + 1, Append(points, Along(near.d)))
                 ELSE Append(points, Along(near.d))
         IN Go(RayBlocks(currentPos, currentDir, blocks, w, 1,
                         RayWalls(currentPos, currentDir, w)))

\* a predictor that walks its start-position argument along the ray
predictTrajectory_walks(startPos, direction, maxBounces, blocks, w) ==
    LET Walked(points) == [points |-> points, startPos |-> points[Len(points)],
                           blocks |-> blocks]
    IN Walked(IF direction = Vec(0, 0) THEN <<startPos>>
              ELSE predictFrom(startPos, Normalize(direction), maxBounces,
                               blocks, w, 0, <<startPos>>))

\* PhysicsSystem.predictTrajectory in a viewport w wide: the points it
\* returns, and its start-position and block-list arguments as the call
\* leaves them
predictTrajectory(startPos, direction, maxBounces, blocks, w) ==
    [points |-> IF direction = Vec(0, 0) THEN <<startPos>>
                ELSE predictFrom(startPos, Normalize(direction), maxBounces,
                                 blocks, w, 0, <<startPos>>),
     startPos |-> startPos,
     blocks |-> blocks]

\* Vec2.mag(aimVector) > 10: a clamped aim vector is a unit vector
AimDrawn(v) ==
    /\ v \notin {Vec(CosCone, -SinCone), Vec(-CosCone, -SinCone)}
    /\ VecDot(v, v) > (10 * PX) * (10 * PX)

\* Engine.drawLaunchAndAim: the aim line put on the canvas
drawLaunchAndAim(s) ==
    IF s.engine.phase = "AIMING" /\ AimDrawn(s.engine.aimVector)
    THEN LET Line(r) == [s EXCEPT !.engine.launchPos = r.startPos,
                                  !.engine.blocks = r.blocks,
                                  !.ui.aimLine = r.points]
         IN Line(predictTrajectory(s.engine.launchPos, s.engine.aimVector, 2,
                                   s.engine.blocks, s.engine.width))
    ELSE [s EXCEPT !.ui.aimLine = <<>>]

\* Engine.draw: nothing is rendered while the canvas is not sized
draw(s) ==
    IF s.engine.width <= 0 \/ s.engine.height <= 0 THEN s
    ELSE drawLaunchAndAim(s)

\* the callback of the launch interval started by startShooting
launchTick(e) ==
    IF e.firedCount >= Len(e.balls)
    THEN [e EXCEPT !.launchInterval = FALSE]
    ELSE [e EXCEPT !.balls[e.firedCount + 1].isActive = TRUE,
                   !.balls[e.firedCount + 1].isReturning = FALSE,
                   !.balls[e.firedCount + 1].position = e.launchPos,
                   !.balls[e.firedCount + 1].velocity = e.launchVector,
                   !.firedCount = @ + 1]

\* ------------------------------------------------------------------ restore
\* a restore step that keeps the bottom-most row
RemoveBottomRow_keep(blocks) == blocks

\* "Remove the bottom-most row of blocks": those not in the largest row stay
RemoveBottomRow(blocks) ==
    LET maxRow == CHOOSE r \in {blocks[k].row : k \in DOMAIN blocks} :
                     \A k \in DOMAIN blocks : blocks[k].row <= r
        NotBottom(b) == b.row # maxRow
    IN IF Len(blocks) > 0 THEN Filter(blocks, NotBottom, 1) ELSE blocks

\* snapshot.blocks.map(...): a BlockEntity per entry, maxHp as recorded
RestoredBlocks(snapshot) ==
    [k \in DOMAIN snapshot.blocks |->
        LET bs == snapshot.blocks[k]
        IN [Block(bs.id, bs.col, bs.row, bs.hp, bs.type, bs.gimmick)
              EXCEPT !.maxHp = bs.maxHp]]

\* snapshot.items.map(...)
RestoredItems(snapshot) ==
    [k \in DOMAIN snapshot.items |->
        Item(snapshot.items[k].id, snapshot.items[k].col, snapshot.items[k].row)]

\* a restore that pushes the snapshot's blocks onto the current ones
restoreFromSnapshot_push(s, snapshot) ==
    LET e1 == [s.engine EXCEPT
                  !.level = snapshot.level,
                  !.score = snapshot.score,
                  !.totalBalls = snapshot.totalBalls,
                  !.launchPos = snapshot.launchPos,
                  !.blocks = @ \o RemoveBottomRow(RestoredBlocks(snapshot)),
                  !.items = RestoredItems(snapshot)]
    IN emitMetrics([s EXCEPT !.engine = [resetBalls(e1) EXCEPT !.phase = "AIMING"]])

\* Engine.restoreFromSnapshot
restoreFromSnapshot(s, snapshot) ==
    LET e1 == [s.engine EXCEPT
                  !.level = snapshot.level,
                  !.score = snapshot.score,
                  !.totalBalls = snapshot.totalBalls,
                  !.launchPos = snapshot.launchPos,
                  !.blocks = RemoveBottomRow(RestoredBlocks(snapshot)),
                  !.items = RestoredItems(snapshot)]
    IN emitMetrics([s EXCEPT !.engine = [resetBalls(e1) EXCEPT !.phase = "AIMING"]])

\* GameScreen.handleContinue once the rewarded ad has been watched
handleContinue(s) ==
    [restoreFromSnapshot(s, s.ui.snapshot) EXCEPT
        !.ui.restoredFrom = s.ui.snapshot,
        !.ui.continueUsed = TRUE,
        !.ui.snapshot = NoSnapshot,
        !.ui.restores = @ + 1]

\* GameScreen.handleContinue up to its await: the guard reads the snapshot
\* and continueUsed of the render that made the callback, and the call then
\* waits for adMobService.showRewarded holding that snapshot
continueTriggered(s) ==
    IF s.ui.snapshot = NoSnapshot \/ s.ui.continueUsed
    THEN s
    ELSE [s EXCEPT !.ui.pendingAds = Append(@, s.ui.snapshot)]

\* GameScreen.handleContinue after its await, for the call that has waited
\* longest: the ad was rewarded or not
continueResumed(s, rewarded) ==
    LET snapshot == Head(s.ui.pendingAds)
        waiting == [s EXCEPT !.ui.pendingAds = Tail(@)]
    IN IF rewarded
       THEN [restoreFromSnapshot(waiting, snapshot) EXCEPT
                !.ui.restoredFrom = snapshot,
                !.ui.continueUsed = TRUE,
                !.ui.snapshot = NoSnapshot,
                !.ui.restores = @ + 1]
       ELSE waiting

\* GameScreen.handleStart: the canvas is mounted again under a new key, with
\* a new engine; calls that wait for an ad keep waiting
handleStart(s, row) ==
    [engine |-> resetGame(s.engine.width, s.engine.height, row),
     ui |-> [InitUi EXCEPT !.pendingAds = s.ui.pendingAds,
                           !.gameId = s.ui.gameId + 1]]

\* ------------------------------------------------------------------ actions
\* the state a handler starts from: no onGameOver call made by it yet
World == [engine |-> engine,
          ui |-> [ui EXCEPT !.gameOverCalls = 0, !.longTurnCalls = 0]]

\* the launch interval's callback stays due only while the interval exists
Commit(s, op, due) ==
    /\ engine' = s.engine
    /\ ui' = s.ui
    /\ timerDue' = (due /\ s.engine.launchInterval)
    /\ lastOp' = op

Init ==
    /\ \E row \in Rows : engine = resetGame(ViewWidth, ViewHeight, row)
    /\ ui = InitUi
    /\ sinceLast = 0
    /\ timerDue = FALSE
    /\ lastOp = "init"

\* LaunchPeriodMs of wall-clock time pass; a due interval callback runs
\* before more time does
Wait ==
    /\ ~timerDue
    /\ sinceLast < MaxGap * LaunchPeriodMs
    /\ sinceLast' = sinceLast + LaunchPeriodMs
    /\ Commit(World, "wait", TRUE)

\* the setInterval callback of startShooting
LaunchTimer ==
    /\ timerDue
    /\ engine.launchInterval
    /\ Commit([World EXCEPT !.engine = launchTick(@)], "timer", FALSE)
    /\ UNCHANGED sinceLast

\* Engine.loop, one animation frame; a turn is followed for at most maxTurn
\* milliseconds of flight
LoopUpTo(maxTurn) ==
    /\ ~timerDue
    /\ sinceLast > 0
    /\ sinceLast' = 0
    /\ IF engine.isPaused
       THEN Commit(World, "loop", timerDue)
       ELSE LET dt == Min2(sinceLast, MaxFrameMs)
                inFlight == engine.phase \in {"SHOOTING", "RETURNING"}
                Frame(ends) ==
                    /\ ends => engine.level < MaxLevel
                    /\ \E row \in IF ends THEN TurnRows ELSE {CHOOSE r \in TurnRows : TRUE} :
                          Commit(draw(update(World, dt, row)), "loop", timerDue)
            IN /\ inFlight => engine.turnTimer + dt <= maxTurn
               /\ Frame(inFlight /\ TurnOver(updateFlight(World, dt)))

Loop == LoopUpTo(MaxTurnMs)

\* Pointer input and the recall button are explored while the canvas is
\* visible: a collapsed canvas receives no pointer events.

\* the pointer position p pixels away from the launch position
PointerAt(p) == VecAdd(engine.launchPos, Vec(p[1] * PX, p[2] * PX))

\* InputHandler's move callback with the pointer at offset p
AimAt(p) ==
    /\ engine.phase = "AIMING"
    /\ engine.level <= MaxPlayLevel
    /\ engine.width > 0
    /\ Commit(onAim(World, PointerAt(p)), "aim", timerDue)
    /\ UNCHANGED sinceLast

Aim == \E p \in PointerOffsets : AimAt(p)

\* InputHandler's release callback with the pointer at offset p
ShootAt(p) ==
    /\ engine.phase = "AIMING"
    /\ engine.level <= MaxPlayLevel
    /\ engine.width > 0
    /\ Commit(onShoot(World, PointerAt(p)), "shoot", FALSE)
    /\ UNCHANGED sinceLast

Shoot == \E p \in PointerOffsets : ShootAt(p)

\* Engine.setPaused, from GameCanvas when its isPaused prop changes
SetPaused ==
    /\ \E paused \in BOOLEAN :
          /\ paused # engine.isPaused
          /\ Commit([World EXCEPT !.engine.isPaused = paused], "pause", timerDue)
          /\ sinceLast' = IF paused THEN sinceLast ELSE 0

\* GameCanvas.handleRecall: Engine.recallBalls, then setShowRecall(false)
Recall ==
    /\ engine.level < MaxLevel
    /\ engine.width > 0
    /\ \E row \in TurnRows : Commit(recallBalls(World, row), "recall", timerDue)
    /\ UNCHANGED sinceLast

\* the sizes the parent element is resized to: it collapses
Viewports == {<<0, 0>>}

\* the window's resize listener: Engine.resize
Resize ==
    /\ \E v \in Viewports :
          /\ v # <<engine.width, engine.height>>
          /\ v[1] = 0 => engine.level <= MaxPlayLevel /\ engine.turnTimer <= MaxCollapseMs
          /\ Commit([World EXCEPT !.engine = resize(@, v[1], v[2])], "resize", timerDue)
    /\ UNCHANGED sinceLast

\* GameScreen.handleContinue
Continue ==
    /\ ui.snapshot # NoSnapshot
    /\ ~ui.continueUsed
    /\ Commit(handleContinue(World), "continue", timerDue)
    /\ UNCHANGED sinceLast

Next ==
    \/ Wait
    \/ LaunchTimer
    \/ Loop
    \/ Aim
    \/ Shoot
    \/ SetPaused
    \/ Recall
    \/ Resize
    \/ Continue

Spec == Init /\ [][Next]_vars

\* ------------------------------------------------------------ two-row boards
\* Play on boards of two rows: the session after its first turn was ended
\* by a recall before any shot, in a taller viewport, driven by the frame
\* clock, the launch interval and shots only.

\* the taller parent element, px
TallHeight == 460

\* a draw that fills columns 2 to 5
BoardRow(c2, c3, c4, c5) ==
    [c \in 0 .. COLS - 1 |->
        CASE c = 2 -> c2 [] c = 3 -> c3 [] c = 4 -> c4 [] c = 5 -> c5
          [] OTHER -> EmptyCell]

\* the explored pairs of draws, the row of level 1 and the row of level 2:
\* explosive blocks among plain ones; a gold block under a weak one; two
\* strong blocks side by side under an item
Boards ==
    {<<BoardRow(BlockCell(4000, "SQUARE", "NONE"), BlockCell(300, "SQUARE", "EXPLOSIVE"),
                BlockCell(2000, "SQUARE", "EXPLOSIVE"), BlockCell(4000, "SQUARE", "NONE")),
       BoardRow(BlockCell(4000, "SQUARE", "NONE"), BlockCell(400, "SQUARE", "GOLD"),
                BlockCell(1500, "SQUARE", "NONE"), BlockCell(4000, "SQUARE", "NONE"))>>,
     <<BoardRow(EmptyCell, BlockCell(300, "SQUARE", "GOLD"),
                BlockCell(300, "SQUARE", "NONE"), EmptyCell),
       BoardRow(EmptyCell, BlockCell(400, "SQUARE", "NONE"), EmptyCell, EmptyCell)>>,
     <<BoardRow(EmptyCell, BlockCell(4000, "SQUARE", "NONE"),
                BlockCell(4000, "SQUARE", "NONE"), EmptyCell),
       BoardRow(EmptyCell, ItemCell, EmptyCell, EmptyCell)>>}

\* the constructor, then recallBalls before any shot
BoardInit ==
    /\ \E b \in Boards :
          LET made == [engine |-> resetGame(ViewWidth, TallHeight, b[1]), ui |-> InitUi]
              Start(s) == engine = s.engine /\ ui = s.ui
          IN Start(recallBalls(made, b[2]))
    /\ sinceLast = 0
    /\ timerDue = FALSE
    /\ lastOp = "recall"

\* pointer positions of the releases: straight up, and towards the gap
\* between columns 3 and 4
BoardOffsets == {<<0, -50>>, <<27, -96>>}

\* InputHandler's release callback with the pointer at offset p
BoardShootAt(p) ==
    /\ engine.phase = "AIMING"
    /\ engine.level <= MaxBoardLevel
    /\ Commit(onShoot(World, PointerAt(p)), "shoot", FALSE)
    /\ UNCHANGED sinceLast

BoardShoot == \E p \in BoardOffsets : BoardShootAt(p)

BoardNext ==
    \/ Wait
    \/ LaunchTimer
    \/ Loop
    \/ BoardShoot

BoardSpec == BoardInit /\ [][BoardNext]_vars

\* ------------------------------------------------- pointer input at any time
\* InputHandler's move callback with the pointer at offset p, in any phase;
\* turns are started at levels up to MaxPlayLevel
InputAimAt(p) ==
    /\ engine.phase = "AIMING" => engine.level <= MaxPlayLevel
    /\ Commit(onAim(World, PointerAt(p)), "aim", timerDue)
    /\ UNCHANGED sinceLast

InputAim == \E p \in PointerOffsets : InputAimAt(p)

\* InputHandler's release callback with the pointer at offset p, in any
\* phase; a shot that starts a turn replaces the launch interval
InputShootAt(p) ==
    /\ engine.phase = "AIMING" => engine.level <= MaxPlayLevel
    /\ Commit(onShoot(World, PointerAt(p)), "shoot",
              timerDue /\ engine.phase # "AIMING")
    /\ UNCHANGED sinceLast

InputShoot == \E p \in PointerOffsets : InputShootAt(p)

InputNext ==
    \/ Wait
    \/ LaunchTimer
    \/ Loop
    \/ InputAim
    \/ InputShoot

InputSpec == Init /\ [][InputNext]_vars

\* -------------------------------------------------- long turns, tall viewport
\* a parent element tall enough for a flat shot to stay in flight for more
\* than 25 s
\* the continue button of the game-over screen: GameScreen.handleContinue
ContinueTrigger ==
    /\ Len(ui.pendingAds) < MaxPendingAds
    /\ Commit(continueTriggered(World), "trigger", timerDue)
    /\ UNCHANGED sinceLast

\* adMobService.showRewarded resolves for a waiting handleContinue
AdResolves ==
    /\ Len(ui.pendingAds) > 0
    /\ \E rewarded \in BOOLEAN :
          Commit(continueResumed(World, rewarded), "ad", timerDue)
    /\ UNCHANGED sinceLast

\* the retry button: GameScreen.handleRetry calls handleStart
Retry ==
    /\ ui.gameId < MaxStarts
    /\ \E row \in TurnRows : Commit(handleStart(World, row), "start", FALSE)
    /\ sinceLast' = 0

\* a game played by ending turns, with the continue and retry buttons
ContinueNext == Wait \/ Loop \/ Recall \/ ContinueTrigger \/ AdResolves \/ Retry
ContinueSpec == Init /\ [][ContinueNext]_vars

LongHeight == 2400

LongInit ==
    /\ \E row \in Rows : engine = resetGame(ViewWidth, LongHeight, row)
    /\ ui = InitUi
    /\ sinceLast = 0
    /\ timerDue = FALSE
    /\ lastOp = "init"

\* pointer position of the releases: far to the right at the height of the
\* launch position, which the aim cone clamps to its flattest shot
LongOffsets == {<<150, 0>>}

\* InputHandler's release callback with the pointer at offset p
LongShootAt(p) ==
    /\ engine.phase = "AIMING"
    /\ engine.level <= MaxLongLevel
    /\ Commit(onShoot(World, PointerAt(p)), "shoot", FALSE)
    /\ UNCHANGED sinceLast

LongShoot == \E p \in LongOffsets : LongShootAt(p)

LongLoop == LoopUpTo(IF engine.level = 1 THEN MaxLongTurnMs ELSE MaxTurnMs)

\* a click on the RECALL button, rendered while showRecall is set:
\* GameCanvas.handleRecall
LongRecall ==
    /\ ui.showRecall
    /\ engine.level < MaxLevel
    /\ \E row \in TurnRows : Commit(recallBalls(World, row), "recall", timerDue)
    /\ UNCHANGED sinceLast

LongNext ==
    \/ Wait
    \/ LaunchTimer
    \/ LongLoop
    \/ LongShoot
    \/ LongRecall

LongSpec == LongInit /\ [][LongNext]_vars

\* ------------------------------------------------------------------- properties
InFlight(e) == e.phase \in {"SHOOTING", "RETURNING"}

\* every ball of the turn has been launched and none is active any more
AllDown(e) ==
    /\ e.firedCount >= Len(e.balls)
    /\ \A k \in DOMAIN e.balls : ~e.balls[k].isActive

\* every ball is idle at the launch position
AllIdle(e) ==
    \A k \in DOMAIN e.balls :
        /\ ~e.balls[k].isActive
        /\ ~e.balls[k].isReturning
        /\ e.balls[k].velocity = Vec(0, 0)
        /\ e.balls[k].position = e.launchPos

\* what the animation frame of this step leaves before a possible endTurn
AfterPhysics == updateFlight(World, Min2(sinceLast, MaxFrameMs)).engine

\* C1: onGameOver is fired exactly once per transition into GAME_OVER: the
\* handler that takes the phase into GAME_OVER calls it once, however many
\* blocks its check finds, and no handler calls it while the phase stays
\* GAME_OVER or is something else.
GameOverReportedOnce ==
    [][/\ (engine.phase # "GAME_OVER" /\ engine'.phase = "GAME_OVER")
             => ui'.gameOverCalls = 1
       /\ (engine.phase = "GAME_OVER" \/ engine'.phase # "GAME_OVER")
             => ui'.gameOverCalls = 0]_vars

\* C2: once every ball of the turn has been launched and deactivated, at the
\* bottom or on a POISON block, the turn has ended: no state of a turn in
\* flight has all its balls launched and down.
TurnEndsWhenAllDown == InFlight(engine) => ~AllDown(engine)

\* the entities of e2 are those of e one row further down, followed by one
\* new row: entities in row 1, spawned at level e2.level, one per column
OneRowSpawned(e, e2) ==
    /\ Len(e2.blocks) >= Len(e.blocks)
    /\ Len(e2.items) >= Len(e.items)
    /\ \A k \in DOMAIN e.blocks : e2.blocks[k] = [e.blocks[k] EXCEPT !.row = @ + 1]
    /\ \A k \in DOMAIN e.items : e2.items[k] = [e.items[k] EXCEPT !.row = @ + 1]
    /\ \A k \in DOMAIN e2.blocks :
          k > Len(e.blocks) => e2.blocks[k].row = 1 /\ e2.blocks[k].id[2] = e2.level
    /\ \A k \in DOMAIN e2.items :
          k > Len(e.items) => e2.items[k].row = 1 /\ e2.items[k].id[2] = e2.level
    /\ \A c \in 0 .. COLS - 1 :
          Cardinality({k \in DOMAIN e2.blocks : e2.blocks[k].row = 1 /\ e2.blocks[k].col = c})
          + Cardinality({k \in DOMAIN e2.items : e2.items[k].row = 1 /\ e2.items[k].col = c})
          <= 1

\* C3: a tick of a turn in flight in which balls return or die either leaves
\* a ball of the turn up, or runs endTurn exactly once: the level rises by
\* one, one new row is spawned and the phase leaves flight, so that no later
\* tick ends the same turn again.
EndTurnOncePerTurn ==
    [][(lastOp' = "loop" /\ ~engine.isPaused /\ InFlight(engine))
          => \/ /\ InFlight(engine')
                /\ engine'.level = engine.level
                /\ ~AllDown(engine')
             \/ /\ ~InFlight(engine')
                /\ engine'.level = engine.level + 1
                /\ OneRowSpawned(AfterPhysics, engine')]_vars

\* C4: GAME_OVER is terminal: no tick, input or recallBalls changes phase,
\* level, blocks or items while the phase is GAME_OVER; only a restore from a
\* snapshot leaves it.
GameOverTerminal ==
    [][(engine.phase = "GAME_OVER" /\ lastOp' # "continue")
          => /\ engine'.phase = "GAME_OVER"
             /\ engine'.level = engine.level
             /\ engine'.blocks = engine.blocks
             /\ engine'.items = engine.items]_vars

\* a turn end that takes e to e2: launch position committed, level raised,
\* rows shifted and a row spawned, balls recreated idle, interval cleared, and
\* the phase AIMING unless a block is at or below the safety margin
EndsTurn(e, e2) ==
    /\ e2.level = e.level + 1
    /\ e2.launchPos = IF e.nextLaunchPos # NoVec THEN e.nextLaunchPos ELSE e.launchPos
    /\ OneRowSpawned(e, e2)
    /\ Len(e2.balls) = e.totalBalls
    /\ AllIdle(e2)
    /\ ~e2.launchInterval
    /\ e2.phase = IF DangerBlocks(e2) = {} THEN "AIMING" ELSE "GAME_OVER"

\* C5: recallBalls during flight does what a natural turn end does, from
\* wherever the balls are and however many have been launched: both take the
\* engine through the same turn end, and outside flight every ball is idle at
\* the launch position of the sized viewport, so that no ball of the recalled
\* turn is launched or moved afterwards.
RecallIsTurnEnd ==
    [][/\ (lastOp' = "recall" /\ InFlight(engine)) => EndsTurn(engine, engine')
       /\ (lastOp' = "loop" /\ InFlight(engine) /\ ~InFlight(engine'))
             => EndsTurn(AfterPhysics, engine')
       /\ (~InFlight(engine') /\ engine'.width > 0)
             => AllIdle(engine') /\ ~timerDue']_vars

\* a recall has ended the level-1 turn after its shot and before all of its
\* balls were launched
RecallIsTurnEnd_witness ==
    /\ lastOp = "recall"
    /\ engine.level = 2
    /\ engine.launchVector # NoVec
    /\ engine.firedCount \in 1 .. INITIAL_BALLS - 1

\* C6: a release whose aim vector (pointer minus launch position) is no
\* longer than the threshold launches nothing: the phase stays AIMING and no
\* launch interval is started; a longer one, such as magnitude 50, launches.
ShortAimNeverLaunches ==
    [][\A p \in PointerOffsets :
          ShootAt(p) =>
             IF p[1] * p[1] + p[2] * p[2] > ShootThreshold * ShootThreshold
             THEN engine'.phase = "SHOOTING" /\ engine'.launchInterval
             ELSE engine'.phase = "AIMING" /\ ~engine'.launchInterval]_vars

\* C7: while the engine is paused, time passing, the launch interval and the
\* animation frame leave balls, turn timer, blocks, items, score, level and
\* phase as they are; and resuming restarts the frame clock, so the paused
\* span is not simulated.
PauseFreezes ==
    [][/\ (engine.isPaused /\ engine'.isPaused /\ lastOp' \in {"wait", "timer", "loop"})
             => /\ engine'.balls = engine.balls
                /\ engine'.turnTimer = engine.turnTimer
                /\ engine'.blocks = engine.blocks
                /\ engine'.items = engine.items
                /\ engine'.score = engine.score
                /\ engine'.level = engine.level
                /\ engine'.phase = engine.phase
       /\ (engine.isPaused /\ ~engine'.isPaused) => sinceLast' = 0]_vars

\* the fields restoreFromSnapshot is said to determine
Restored(e) ==
    [level |-> e.level, score |-> e.score, totalBalls |-> e.totalBalls,
     launchPos |-> e.launchPos, phase |-> e.phase, blocks |-> e.blocks,
     items |-> e.items, balls |-> e.balls]

\* the snapshots a state holds: the one GameScreen keeps and the one last
\* restored from
HeldSnapshots == {ui.snapshot, ui.restoredFrom} \ {NoSnapshot}

\* C8: restoreFromSnapshot is idempotent: from any state, restoring twice
\* from a snapshot leaves the same level, score, totalBalls, launch position,
\* phase, blocks, items and balls as restoring once, and in the state a
\* restore has just left, restoring again changes none of them.
RestoreIdempotent ==
    /\ \A snap \in HeldSnapshots :
          LET once == restoreFromSnapshot(World, snap)
          IN Restored(restoreFromSnapshot(once, snap).engine) = Restored(once.engine)
    /\ lastOp = "continue" =>
          Restored(restoreFromSnapshot(World, ui.restoredFrom).engine) = Restored(engine)

\* a restore has just run from a snapshot with blocks while other blocks or
\* another level were current
RestoreIdempotent_witness ==
    /\ lastOp = "continue"
    /\ Len(ui.restoredFrom.blocks) >= 2
    /\ ui.snapshot = NoSnapshot

\* the block, item and ball records of a snapshot entry
SnapBlock(b) ==
    [id |-> b.id, col |-> b.col, row |-> b.row, hp |-> b.hp, maxHp |-> b.maxHp,
     type |-> b.type, gimmick |-> b.gimmick]

SnapItem(i) == [id |-> i.id, col |-> i.col, row |-> i.row]

\* C9: after restoreFromSnapshot(s), level, score, totalBalls and launchPos
\* are those of s; the blocks are exactly those of s outside the largest
\* block row of s, with all their attributes; the items are those of s;
\* there are totalBalls idle balls; and the phase is AIMING.
RestoreContents ==
    lastOp = "continue" =>
       LET snap == ui.restoredFrom
           rows == {snap.blocks[k].row : k \in DOMAIN snap.blocks}
           kept == {snap.blocks[k] : k \in {j \in DOMAIN snap.blocks :
                                             \E r \in rows : r > snap.blocks[j].row}}
       IN /\ engine.level = snap.level
          /\ engine.score = snap.score
          /\ engine.totalBalls = snap.totalBalls
          /\ engine.launchPos = snap.launchPos
          /\ {SnapBlock(engine.blocks[k]) : k \in DOMAIN engine.blocks} = kept
          /\ Len(engine.blocks) = Cardinality(kept)
          /\ {SnapItem(engine.items[k]) : k \in DOMAIN engine.items}
                = {snap.items[k] : k \in DOMAIN snap.items}
          /\ Len(engine.items) = Len(snap.items)
          /\ \A k \in DOMAIN engine.items : ~engine.items[k].collected
          /\ Len(engine.balls) = snap.totalBalls
          /\ AllIdle(engine)
          /\ engine.phase = "AIMING"

\* a restore has just run from a snapshot with blocks in two rows: some were
\* dropped and some were kept
RestoreContents_witness ==
    /\ lastOp = "continue"
    /\ Len(engine.blocks) > 0
    /\ Len(engine.blocks) < Len(ui.restoredFrom.blocks)

Triple(e) == <<e.score, e.level, e.totalBalls>>

\* C10: a metric update is fired whenever score, level or totalBalls changes:
\* every handler that changes one of them leaves the last triple passed to
\* onMetricUpdate equal to the current one, and once a triple has been passed
\* the last one always equals the current one.
MetricsFollowChanges ==
    [][/\ Triple(engine') # Triple(engine) => ui'.lastMetrics = Triple(engine')
       /\ ui'.lastMetrics # <<>> => ui'.lastMetrics = Triple(engine')]_vars

\* a tick in flight has raised the score and reported it
MetricsFollowChanges_witness ==
    /\ lastOp = "loop"
    /\ InFlight(engine)
    /\ engine.score > 0
    /\ ui.lastMetrics = Triple(engine)

\* C11: a tick that runs while the viewport has zero width or height
\* simulates nothing: balls, blocks, items, score, level, phase and the
\* returning count are after the tick what they were before it.
ZeroViewportTickFrozen ==
    [][(lastOp' = "loop" /\ ~engine.isPaused
           /\ (engine.width = 0 \/ engine.height = 0))
          => /\ engine'.balls = engine.balls
             /\ engine'.blocks = engine.blocks
             /\ engine'.items = engine.items
             /\ engine'.score = engine.score
             /\ engine'.level = engine.level
             /\ engine'.phase = engine.phase
             /\ engine'.ballsReturned = engine.ballsReturned]_vars

\* the entities as the physics of this step's frame leaves them, before the
\* engine looks at them: same blocks in the same order, hp lowered by hits.
\* The frame's time scale is the one the step leaves.
FrameHits ==
    PhysicsUpdate(Min2(sinceLast, MaxFrameMs) * engine'.timeScale,
                  engine.balls, engine.blocks, engine.items,
                  engine.width, engine.height)

\* blocks a and b are distinct and within Chebyshev distance 1 on the grid
Adjacent(a, b) ==
    /\ Abs(a.col - b.col) <= 1
    /\ Abs(a.row - b.row) <= 1
    /\ <<a.col, a.row>> # <<b.col, b.row>>

\* the EXPLOSIVE blocks among hit that hits have destroyed and that lie
\* next to block k
BlastsAt(hit, k) ==
    {j \in DOMAIN hit : /\ hit[j].hp <= 0
                        /\ hit[j].gimmick = "EXPLOSIVE"
                        /\ Adjacent(hit[j], hit[k])}

\* the hp of the block with this id on the board, 0 when it is not there
HpOf(blocks, id) ==
    IF \E k \in DOMAIN blocks : blocks[k].id = id
    THEN blocks[CHOOSE k \in DOMAIN blocks : blocks[k].id = id].hp
    ELSE 0

\* C12: when hits destroy EXPLOSIVE blocks in a tick, every block that is
\* live and within Chebyshev distance 1 of one of them loses exactly 2 hp
\* for each such explosion, and is removed when nothing is left; a block
\* further away from all of them keeps the hp the hits left it.
ExplosionDamage ==
    [][(lastOp' = "loop" /\ ~engine.isPaused /\ InFlight(engine))
          => LET Left(hit, k) ==
                     hit[k].hp - BlastDamage * Cardinality(BlastsAt(hit, k))
                 Damaged(hit) ==
                     \A k \in DOMAIN hit :
                        hit[k].hp > 0
                           => HpOf(engine'.blocks, hit[k].id) = Max2(Left(hit, k), 0)
             IN Damaged(FrameHits.blocks)]_vars

\* an explosion has just taken 2 hp from the neighbour beside it and from
\* the neighbour diagonally above it, and none from the blocks two columns
\* away
ExplosionDamage_witness ==
    /\ lastOp = "loop"
    /\ HpOf(engine.blocks, <<"b", 1, 3>>) = 0
    /\ HpOf(engine.blocks, <<"b", 1, 2>>) = 2
    /\ HpOf(engine.blocks, <<"b", 2, 4>>) = 1
    /\ HpOf(engine.blocks, <<"b", 2, 2>>) = 6
    /\ HpOf(engine.blocks, <<"b", 1, 5>>) = 4
    /\ HpOf(engine.blocks, <<"b", 2, 5>>) = 8

\* the blocks a ball's hit destroyed in this step's frame
HitDestroyed(hit) == {k \in DOMAIN hit : hit[k].hp <= 0}

Award(b) == IF b.gimmick = "GOLD" THEN GoldPoints ELSE BlockPoints

RECURSIVE SumAwards(_, _)
SumAwards(hit, ks) ==
    IF ks = {} THEN 0
    ELSE LET k == CHOOSE x \in ks : TRUE
         IN Award(hit[k]) + SumAwards(hit, ks \ {k})

\* C13: in a frame of a turn in flight, every block a ball's hit brings to
\* hp 0 is off the board after the frame, and the score rises by the sum over
\* those blocks of 500 for a GOLD block and 100 for any other.
HitScore ==
    [][(lastOp' = "loop" /\ ~engine.isPaused /\ InFlight(engine))
          => LET Scored(hit) ==
                     /\ engine'.score - engine.score
                           = SumAwards(hit, HitDestroyed(hit))
                     /\ \A k \in HitDestroyed(hit) :
                           \A j \in DOMAIN engine'.blocks :
                              engine'.blocks[j].id # hit[k].id
             IN Scored(FrameHits.blocks)]_vars

\* hits have destroyed the GOLD block and the plain block of one row, and
\* the score is the sum of their two awards
HitScore_witness ==
    /\ lastOp = "loop"
    /\ engine.score = GoldPoints + BlockPoints
    /\ \A j \in DOMAIN engine.blocks : engine.blocks[j].row # 2

\* C14: between ticks every block on the board has 0 < hp <= maxHp: a block
\* a hit or a blast brought to hp 0 or below is gone when its tick is over.
HpInRange ==
    \A k \in DOMAIN engine.blocks :
       0 < engine.blocks[k].hp /\ engine.blocks[k].hp <= engine.blocks[k].maxHp

\* a tick is over in which a hit destroyed one block and its blast another,
\* while a third block survived the blast with 1 hp of its 3
HpInRange_witness ==
    /\ lastOp = "loop"
    /\ HpOf(engine.blocks, <<"b", 1, 3>>) = 0
    /\ HpOf(engine.blocks, <<"b", 1, 4>>) = 0
    /\ \E k \in DOMAIN engine.blocks :
          /\ engine.blocks[k].id = <<"b", 2, 4>>
          /\ engine.blocks[k].hp = 1
          /\ engine.blocks[k].maxHp = 3

\* the auto-speed-up scales of a turn
Scales == 1 .. 3

\* C15: the time scale is x1, x2 or x3, and for every frame delta of at most
\* 0.1 s under each of these scales a ball at BALL_SPEED moves at most half
\* the ball radius in one of the frame's sub-steps (distances in
\* thousandths of a pixel: speed * ms against steps * radius * 1000 / 2).
SubStepDisplacement ==
    /\ engine.timeScale \in Scales
    /\ \A ms \in 0 .. MaxFrameMs : \A scale \in Scales :
          LET Bounded(dt, steps) ==
                  /\ dt > 0 => steps > 0
                  /\ 2 * BALL_SPEED * dt <= steps * BALL_RADIUS * 1000
          IN Bounded(ms * scale, SubSteps(ms * scale))

\* a frame has just moved a ball that is still in flight
SubStepDisplacement_witness ==
    /\ lastOp = "loop"
    /\ InFlight(engine)
    /\ \E k \in DOMAIN engine.balls :
          /\ engine.balls[k].isActive
          /\ engine.balls[k].position # engine.launchPos

\* C16: a frame that draws the aim line while aiming queries
\* predictTrajectory and leaves the engine as it was: every ball, block and
\* item, the launch position handed in as start position and all session
\* state; only the canvas shows the returned points, which begin at the
\* start position.
PredictReadOnly ==
    [][(/\ lastOp' = "loop"
        /\ ~engine.isPaused
        /\ engine.width > 0 /\ engine.height > 0
        /\ engine.phase = "AIMING"
        /\ AimDrawn(engine.aimVector))
          => LET Queried(r) ==
                     /\ r.startPos = engine.launchPos
                     /\ r.blocks = engine.blocks
                     /\ ui'.aimLine = r.points
                     /\ r.points[1] = engine.launchPos
             IN /\ Queried(predictTrajectory(engine.launchPos, engine.aimVector, 2,
                                             engine.blocks, engine.width))
                /\ engine' = engine
                /\ [ui' EXCEPT !.aimLine = <<>>] = [ui EXCEPT !.aimLine = <<>>]]_vars

\* a frame has drawn an aim line that leaves the launch position sideways
\* and stops at a block
PredictReadOnly_witness ==
    /\ lastOp = "loop"
    /\ engine.phase = "AIMING"
    /\ Len(ui.aimLine) = 2
    /\ ui.aimLine[1] = engine.launchPos
    /\ ui.aimLine[2].x # engine.launchPos.x
    /\ ui.aimLine[2].y > TopPadding * PX

\* the hp the blocks of before have lost in after
RECURSIVE HpLost(_, _, _)
HpLost(before, after, k) ==
    IF k > Len(before) THEN 0
    ELSE before[k].hp - after[k].hp + HpLost(before, after, k + 1)

\* the physics of this step's frame after its first j ball steps, in the
\* order PhysicsSystem.update makes them
FrameAfter(j) ==
    LET First(dt, active) ==
            PhysicsLoop(dt, SubSteps(dt), active,
                        [balls |-> engine.balls, blocks |-> engine.blocks,
                         items |-> engine.items],
                        1, j, engine.width, engine.height)
    IN First(Min2(sinceLast, MaxFrameMs) * engine'.timeScale,
             ActiveBalls(engine.balls, 1))

\* the number of ball steps of this step's frame
FrameSteps ==
    SubSteps(Min2(sinceLast, MaxFrameMs) * engine'.timeScale)
       * Len(ActiveBalls(engine.balls, 1))

\* the ball the j-th ball step of the frame is made for
SteppedBall(j) ==
    LET Nth(active) == active[((j - 1) % Len(active)) + 1]
    IN Nth(ActiveBalls(engine.balls, 1))

\* a ball that was live when the frame began has been stopped by its physics
Poisoned(hit) ==
    \E b \in DOMAIN hit.balls :
       engine.balls[b].isActive /\ ~engine.balls[b].isReturning
       /\ ~hit.balls[b].isActive

\* C17: in a frame in which a POISON block stops a ball, the ball step that
\* stops it leaves the ball inactive and returning and takes exactly 1 hp,
\* and every later step made for that ball in the frame changes nothing:
\* not the ball, no block and no item.
PoisonStopsBall ==
    [][(lastOp' = "loop" /\ ~engine.isPaused /\ InFlight(engine)
        /\ Poisoned(FrameHits))
          => \A j \in 1 .. FrameSteps :
                LET Stepped(before, after, b) ==
                        IF before.balls[b].isActive
                        THEN ~after.balls[b].isActive
                                => /\ after.balls[b].isReturning
                                   /\ HpLost(before.blocks, after.blocks, 1) = 1
                        ELSE after = before
                IN Stepped(FrameAfter(j - 1), FrameAfter(j), SteppedBall(j))]_vars

\* where a ball step takes the ball before it looks at the blocks: moved by
\* one sub-step and held inside the side and top walls
MovedTo(ball, dt, steps, w) ==
    LET Held(x, y) ==
            Vec(IF x - BALL_RADIUS * PX < 0 THEN BALL_RADIUS * PX
                ELSE IF x + BALL_RADIUS * PX > w * PX THEN w * PX - BALL_RADIUS * PX
                ELSE x,
                IF y - BALL_RADIUS * PX < 0 THEN BALL_RADIUS * PX ELSE y)
    IN Held(ball.position.x + RDiv(ball.velocity.x * dt, 100 * steps),
            ball.position.y + RDiv(ball.velocity.y * dt, 100 * steps))

\* the live blocks a ball at pos overlaps
Overlapped(pos, blocks, w) ==
    {k \in DOMAIN blocks : blocks[k].hp > 0 /\ checkCollision(pos, blocks[k], w).hit}

\* the blocks the j-th ball step of this step's frame finds its ball on
StepOverlap(j) ==
    LET On(dt, before) ==
            Overlapped(MovedTo(before.balls[SteppedBall(j)], dt, SubSteps(dt),
                               engine.width),
                       before.blocks, engine.width)
    IN On(Min2(sinceLast, MaxFrameMs) * engine'.timeScale, FrameAfter(j - 1))

\* C18: every ball step of a frame resolves at most one block contact: when
\* the moved ball overlaps live blocks, the first of them in container
\* order loses exactly 1 hp and no other block changes, however many it
\* overlaps; when it overlaps none, no block changes.
OneContactPerStep ==
    [][(lastOp' = "loop" /\ ~engine.isPaused /\ InFlight(engine))
          => \A j \in 1 .. FrameSteps :
                LET Min(ks) == CHOOSE k \in ks : \A x \in ks : k <= x
                    Contact(before, after, ks) ==
                        after.blocks =
                           IF ks = {} THEN before.blocks
                           ELSE [before.blocks EXCEPT ![Min(ks)].hp = @ - 1]
                IN Contact(FrameAfter(j - 1), FrameAfter(j), StepOverlap(j))]_vars

\* a frame is over in which one ball met the two strong blocks at the gap
\* between them: the block first in the container has taken one hit, and
\* the ball has gone on to the other
OneContactPerStep_witness ==
    /\ lastOp = "loop"
    /\ engine.score = 0
    /\ \E k \in DOMAIN engine.blocks :
          /\ engine.blocks[k].id = <<"b", 1, 3>>
          /\ engine.blocks[k].maxHp = 4
          /\ engine.blocks[k].hp = 3
    /\ HpOf(engine.blocks, <<"b", 1, 4>>) = 2
    /\ \E b \in DOMAIN engine.balls :
          engine.balls[b].isActive /\ engine.balls[b].velocity.y > 0

\* the EXPLOSIVE blocks next to block k that the hits of the frame left
\* alive and the blasts of the hit-destroyed blocks then brought to hp 0 or
\* below
ChainsAt(hit, k) ==
    {c \in DOMAIN hit :
        /\ hit[c].hp > 0
        /\ hit[c].gimmick = "EXPLOSIVE"
        /\ hit[c].hp - BlastDamage * Cardinality(BlastsAt(hit, c)) <= 0
        /\ Adjacent(hit[c], hit[k])}

\* C19: an EXPLOSIVE block that the blast of another block destroys explodes
\* as well: in the frame, every block the hits left alive loses 2 hp for
\* each hit-destroyed EXPLOSIVE neighbour and 2 hp for each blast-destroyed
\* EXPLOSIVE neighbour, and is purged when nothing is left.
ChainedExplosion ==
    [][(lastOp' = "loop" /\ ~engine.isPaused /\ InFlight(engine))
          => LET Left(hit, k) ==
                     hit[k].hp - BlastDamage * Cardinality(BlastsAt(hit, k)
                                                             \cup ChainsAt(hit, k))
                 Chained(hit) ==
                     \A k \in DOMAIN hit :
                        hit[k].hp > 0 /\ ChainsAt(hit, k) # {}
                           => HpOf(engine'.blocks, hit[k].id) = Max2(Left(hit, k), 0)
             IN Chained(FrameHits.blocks)]_vars

\* the items the balls of this step's frame have collected
Collected(items) == {k \in DOMAIN items : items[k].collected}

\* C20: totalBalls never decreases and no collected item stays on the board;
\* a frame of a turn in flight raises totalBalls by exactly the number of
\* items its balls collected, those items are gone after the frame, and
\* while the turn goes on the ball set keeps its size.
ItemsCountedOnce ==
    [][/\ engine'.totalBalls >= engine.totalBalls
       /\ \A j \in DOMAIN engine'.items : ~engine'.items[j].collected
       /\ (lastOp' = "loop" /\ ~engine.isPaused /\ InFlight(engine))
             => LET Picked(items) ==
                        /\ engine'.totalBalls
                              = engine.totalBalls + Cardinality(Collected(items))
                        /\ \A k \in Collected(items) :
                              \A j \in DOMAIN engine'.items :
                                 engine'.items[j].id # items[k].id
                        /\ InFlight(engine') => Len(engine'.balls) = Len(engine.balls)
                IN Picked(FrameHits.items)]_vars

\* a frame has collected the board's item in mid-turn: totalBalls is one
\* more than the balls of the turn in flight
ItemsCountedOnce_witness ==
    /\ lastOp = "loop"
    /\ InFlight(engine)
    /\ engine.items = <<>>
    /\ engine.totalBalls = INITIAL_BALLS + 1
    /\ Len(engine.balls) = INITIAL_BALLS

\* endTurn has run in this step: by a recall, or by the frame of a turn in
\* flight whose balls are all counted
TurnEnded ==
    \/ lastOp' = "recall"
    \/ lastOp' = "loop" /\ ~engine.isPaused /\ InFlight(engine) /\ ~InFlight(engine')

\* the engine endTurn starts from in this step
BeforeEndTurn == IF lastOp' = "recall" THEN engine ELSE AfterPhysics

\* C21: every endTurn raises the level by exactly 1, moves every block and
\* item it finds down one row, adds entities in row 1 only and at most one
\* per column, and leaves exactly totalBalls idle balls at the committed
\* launch position; a game-over report made by it already sees all of this.
EndTurnAdvancesBoard ==
    [][TurnEnded
          => LET Advanced(e, e2) ==
                     /\ e2.level = e.level + 1
                     /\ OneRowSpawned(e, e2)
                     /\ e2.totalBalls = e.totalBalls
                     /\ Len(e2.balls) = e2.totalBalls
                     /\ e2.launchPos = IF e.nextLaunchPos # NoVec THEN e.nextLaunchPos
                                       ELSE e.launchPos
                     /\ AllIdle(e2)
                     /\ ui'.gameOverCalls > 0 => ui'.snapshot = getSnapshot(e2)
             IN Advanced(BeforeEndTurn, engine')]_vars

\* a turn end has shifted an item and a block down to row 2, spawned a row
\* above them and reported game over with the board as it then was
EndTurnAdvancesBoard_witness ==
    /\ lastOp \in {"recall", "loop"}
    /\ engine.level = 2
    /\ ui.gameOverCalls > 0
    /\ ui.snapshot = getSnapshot(engine)
    /\ \E k \in DOMAIN engine.items : engine.items[k].row = 2
    /\ \E k \in DOMAIN engine.blocks : engine.blocks[k].row = 2
    /\ \E k \in DOMAIN engine.blocks : engine.blocks[k].row = 1

\* the scale of the physics time for a turn timer of t milliseconds
ScaleAt(t) == IF t > VeryLongTurnMs THEN 3 ELSE IF t > LongTurnMs THEN 2 ELSE 1

\* C22: a shot starts its turn with the timer at 0 and the scale at 1; every
\* frame of a turn in flight adds its delta to the timer and leaves the scale
\* 1 up to 15 s, 2 above 15 s up to 25 s and 3 above 25 s; onLongTurn(true)
\* is called once in the frame that takes the timer past 15 s, showing the
\* recall button, and in no other step.
TimeScaleSteps ==
    [][/\ (lastOp' = "shoot" /\ InFlight(engine'))
             => engine'.turnTimer = 0 /\ engine'.timeScale = 1
       /\ InFlight(engine') => engine'.timeScale = ScaleAt(engine'.turnTimer)
       /\ (lastOp' = "loop" /\ ~engine.isPaused /\ InFlight(engine))
             => LET Timed(t) ==
                        /\ AfterPhysics.turnTimer = t
                        /\ AfterPhysics.timeScale = ScaleAt(t)
                        /\ ui'.longTurnCalls
                              = IF engine.turnTimer <= LongTurnMs /\ t > LongTurnMs
                                THEN 1 ELSE 0
                        /\ ui'.longTurnCalls = 1 => ui'.showRecall
                IN Timed(engine.turnTimer + Min2(sinceLast, MaxFrameMs))
       /\ (lastOp' # "loop" \/ ~InFlight(engine)) => ui'.longTurnCalls = 0]_vars

\* a frame has taken a turn past 25 s: the scale is 3 and the recall button,
\* offered since the 15 s mark, is still shown
TimeScaleSteps_witness ==
    /\ lastOp = "loop"
    /\ InFlight(engine)
    /\ engine.turnTimer > VeryLongTurnMs
    /\ engine.timeScale = 3
    /\ ui.showRecall
    /\ ui.longTurnCalls = 0

\* the balls the return check of this step's frame finds at the bottom
\* boundary: launched, active, not yet returning
Crossers(balls) ==
    {k \in DOMAIN balls :
        /\ ~balls[k].isReturning
        /\ balls[k].velocity # Vec(0, 0)
        /\ balls[k].isActive
        /\ balls[k].position.y >= (engine.height - BALL_RADIUS) * PX}

\* C23: the candidate for the next launch position is recorded from the
\* first ball found crossing the bottom boundary in the turn and is not
\* changed by any later ball or step; endTurn commits it and clears it, and
\* leaves the launch position as it is when there is no candidate.
FirstReturnSetsLaunch ==
    [][/\ (lastOp' = "loop" /\ ~engine.isPaused /\ InFlight(engine))
             => LET First(ks) == CHOOSE k \in ks : \A x \in ks : k <= x
                    Recorded(balls, after) ==
                        IF engine.nextLaunchPos # NoVec
                        THEN after.nextLaunchPos = engine.nextLaunchPos
                        ELSE IF Crossers(balls) = {}
                        THEN after.nextLaunchPos = NoVec
                        ELSE after.nextLaunchPos
                                = Vec(balls[First(Crossers(balls))].position.x,
                                      (engine.height - LaunchLineOffset) * PX)
                IN Recorded(FrameHits.balls, AfterPhysics)
       /\ TurnEnded
             => LET Committed(e) ==
                        /\ engine'.launchPos.x
                              = IF e.nextLaunchPos # NoVec THEN e.nextLaunchPos.x
                                ELSE e.launchPos.x
                        /\ e.nextLaunchPos = NoVec => engine'.launchPos = e.launchPos
                        /\ engine'.nextLaunchPos = NoVec
                IN Committed(BeforeEndTurn)
       /\ lastOp' \notin {"loop", "recall"}
             => engine'.nextLaunchPos = engine.nextLaunchPos
       /\ lastOp' \notin {"loop", "recall", "resize", "continue"}
             => engine'.launchPos = engine.launchPos]_vars

\* a turn has ended whose first ball came down away from where it was
\* launched: the launch position has moved there
FirstReturnSetsLaunch_witness ==
    /\ lastOp = "loop"
    /\ engine.phase = "AIMING"
    /\ engine.level = 2
    /\ engine.width > 0
    /\ engine.launchPos.x # (engine.width * PX) \div 2
    /\ engine.nextLaunchPos = NoVec

\* C24: while balls are in flight the phase is SHOOTING as long as a ball of
\* the turn has not been launched and RETURNING once every ball has been.
ReturningOnceAllLaunched ==
    InFlight(engine)
       => (engine.phase = "RETURNING" <=> engine.firedCount >= Len(engine.balls))

\* C25: an aim update or a shoot release that arrives while the phase is
\* not AIMING changes nothing in the engine, and the phase leaves AIMING for
\* SHOOTING by a shoot release only.
InputOnlyWhenAiming ==
    [][/\ (lastOp' \in {"aim", "shoot"} /\ engine.phase # "AIMING")
             => engine' = engine
       /\ (engine.phase = "AIMING" /\ InFlight(engine'))
             => lastOp' = "shoot" /\ engine'.phase = "SHOOTING"
       /\ (lastOp' = "aim" /\ engine.phase = "AIMING")
             => [engine' EXCEPT !.aimVector = Vec(0, 0)]
                   = [engine EXCEPT !.aimVector = Vec(0, 0)]]_vars

\* a shoot release has arrived in mid-turn, with a ball in flight and the
\* others not yet launched, and the turn goes on as it was
InputOnlyWhenAiming_witness ==
    /\ lastOp = "shoot"
    /\ engine.phase = "SHOOTING"
    /\ engine.turnTimer > 0
    /\ engine.firedCount < Len(engine.balls)
    /\ \E k \in DOMAIN engine.balls : engine.balls[k].isActive

\* an aim update has arrived after game over, and the aim vector is still
\* the zero vector the last shot left
AimAfterGameOver ==
    /\ lastOp = "aim"
    /\ engine.phase = "GAME_OVER"
    /\ engine.aimVector = Vec(0, 0)

\* C26: in a turn in flight the balls not yet launched are idle and not
\* returning, the returning count is at most the number of balls launched
\* and at most the ball count, and a frame ends the turn only when every
\* ball of the turn has been launched.
UnlaunchedNeverReturned ==
    [][/\ InFlight(engine')
             => /\ engine'.ballsReturned <= engine'.firedCount
                /\ engine'.firedCount <= Len(engine'.balls)
                /\ \A k \in DOMAIN engine'.balls :
                      k > engine'.firedCount
                         => /\ ~engine'.balls[k].isActive
                            /\ ~engine'.balls[k].isReturning
                            /\ engine'.balls[k].velocity = Vec(0, 0)
       /\ (lastOp' = "loop" /\ ~engine.isPaused /\ InFlight(engine)
           /\ ~InFlight(engine'))
             => /\ engine.firedCount = Len(engine.balls)
                /\ AfterPhysics.ballsReturned = Len(engine.balls)]_vars

\* a frame has counted the first ball as returned while the other balls of
\* the turn are still waiting to be launched, and the turn goes on
UnlaunchedNeverReturned_witness ==
    /\ lastOp = "loop"
    /\ InFlight(engine)
    /\ engine.ballsReturned = 1
    /\ engine.firedCount = 1
    /\ Len(engine.balls) = INITIAL_BALLS

\* the blocks of the board that are gone after this step
Removed ==
    {k \in DOMAIN engine.blocks : HpOf(engine'.blocks, engine.blocks[k].id) = 0}

\* C27: every block a frame of a turn in flight removes from the board is
\* scored in that frame, 500 if it is GOLD and 100 otherwise, whether a ball
\* hit or an EXPLOSIVE neighbour's blast destroyed it.
EveryRemovedBlockScored ==
    [][(lastOp' = "loop" /\ ~engine.isPaused /\ InFlight(engine))
          => engine'.score - engine.score = SumAwards(engine.blocks, Removed)]_vars

\* C28: the board advances only as the end of a turn in flight: no step
\* raises the level, shifts the rows or spawns a row while the phase is
\* AIMING.
BoardAdvancesFromFlight ==
    [][engine.phase = "AIMING"
          => /\ engine'.level = engine.level
             /\ engine'.blocks = engine.blocks
             /\ engine'.items = engine.items]_vars


\* the grid cells taken by the blocks and the items of an engine, as a bag
Cells(e) ==
    [k \in DOMAIN e.blocks |-> <<e.blocks[k].col, e.blocks[k].row>>]
        \o [k \in DOMAIN e.items |-> <<e.items[k].col, e.items[k].row>>]

\* C29: no two entities (blocks or items) ever occupy the same (col, row)
\* cell, whatever sequence of resets, turns, recalls and restores was played.
UniqueCells ==
    \A j, k \in DOMAIN Cells(engine) :
        j # k => Cells(engine)[j] # Cells(engine)[k]

\* a restored game whose turn was then ended: entities stand in the same
\* column of different rows, right after a shift and a spawn
UniqueCells_witness ==
    /\ ui.continueUsed
    /\ lastOp \in {"recall", "loop"}
    /\ ~InFlight(engine)
    /\ engine.level > ui.restoredFrom.level
    /\ \E j, k \in DOMAIN Cells(engine) :
          /\ Cells(engine)[j][1] = Cells(engine)[k][1]
          /\ Cells(engine)[j][2] = 1
          /\ Cells(engine)[k][2] > 1


====
